---- MODULE Spec2Model ----
(***************************************************************************)
(* A model of liara, a static site generator (src/liara/__init__.py and    *)
(* src/liara/template.py): the front-matter scanner, the Query             *)
(* filter/sort engine, the template router, the build pipeline and the     *)
(* Node class.                                                             *)
(*                                                                         *)
(* Each component has its own specification over the same variables; the   *)
(* variables of the other components keep their initial value.             *)
(***************************************************************************)
EXTENDS Naturals, Integers, Sequences, FiniteSets, TLC

VARIABLES
    \* ---- ExtractMetadataAndContent (src/liara/__init__.py:134-155) ----
    lines,            \* open(path).readlines(): the lines of the file
    pos,              \* index of the next line the for loop reads
    state,            \* local 'state' (0, 1, 2)
    metadata,         \* local 'metadata': the lines concatenated so far
    content,          \* local 'content': the lines concatenated so far
    extracted,        \* the returned pair, None before the return
    \* ---- Query (src/liara/__init__.py:101-131) ----
    children,         \* Node.children of the node whose children are selected
    Query__filters,   \* class attribute Query.__filters
    Query__sorters,   \* class attribute Query.__sorters
    Query__nodes,     \* attribute __nodes of each Query instance, by creation
    registered,       \* history: the calls made on each Query instance
    result,           \* outcome of the latest iteration, None after a later call
    \* ---- TemplateRepository (src/liara/template.py:9-26) ----
    routes,           \* self.__routes: (pattern, template) in dict order
    url,              \* the argument of _match_template
    matched,          \* outcome of _match_template, None before the call
    \* ---- Liara.build (src/liara/__init__.py:394-536) ----
    fs,               \* the content, static and resource directories read
    heap,             \* the Node objects created, by identity
    site,             \* the Site: typed collections and the path index
    pc,               \* the stage build() is in
    walk,             \* position of the walk: directory and file
    loop_i,           \* position of the for loop of the current stage
    rendered,         \* the nodes a template was rendered for, in order
    output,           \* what was created under the output directory
    error,            \* the exception that ended build(), None otherwise
    pool,             \* pool.map: the documents sent and the results so far
    run,              \* which call of build() on this output directory
    \* ---- Node (src/liara/__init__.py:42-61, 263-278) ----
    objects,          \* the Node objects constructed, by identity
    Node_children,    \* class attribute Node.children
    Node_metadata,    \* class attribute Node.metadata
    parent,           \* attribute parent of each object, None when not set
    calls             \* history: the children added through each object and
                      \* the objects update_metadata was called on

extractVars == <<lines, pos, state, metadata, content, extracted>>
queryVars   == <<children, Query__filters, Query__sorters, Query__nodes,
                 registered, result>>
routeVars   == <<routes, url, matched>>
buildVars   == <<fs, heap, site, pc, walk, loop_i, rendered, output, error,
                 pool, run>>
nodeVars    == <<objects, Node_children, Node_metadata, parent, calls>>
vars == <<extractVars, queryVars, routeVars, buildVars, nodeVars>>

notExtract == <<queryVars, routeVars, buildVars, nodeVars>>
notQuery   == <<extractVars, routeVars, buildVars, nodeVars>>
notRoute   == <<extractVars, queryVars, buildVars, nodeVars>>
notBuild   == <<extractVars, queryVars, routeVars, nodeVars>>
notNode    == <<extractVars, queryVars, routeVars, buildVars>>

\* Python's None, and the wrappers of the other values a variable that can
\* hold None takes.
None == [kind |-> "None"]

\* ---- generic helpers -------------------------------------------------------

Range(s) == {s[i] : i \in 1..Len(s)}

\* All sequences over S of length at most n.
SeqsUpTo(S, n) == UNION {[1..k -> S] : k \in 0..n}

\* All sequences of pairwise distinct elements of S, of length at most n.
DistinctSeqsUpTo(S, n) ==
    {s \in SeqsUpTo(S, n) : \A i, j \in 1..Len(s) : i /= j => s[i] /= s[j]}

(***************************************************************************)
(* FRONT MATTER: ExtractMetadataAndContent                                 *)
(*                                                                         *)
(* readlines() returns every line with its terminator; only the last line  *)
(* of a file can lack it.  A line is the record [text, nl]: its characters *)
(* without the terminator, and whether '\n' follows.  The buffers are      *)
(* strings built by += of whole lines, modelled as the sequence of the     *)
(* lines appended.                                                         *)
(***************************************************************************)

MaxLines == 3

LineTexts == {"---", "title: X", "", "Body"}

Line(t, n) == [text |-> t, nl |-> n]

TerminatedLines == {Line(t, TRUE) : t \in LineTexts}
\* An unterminated line holds at least one character.
UnterminatedLines == {Line(t, FALSE) : t \in LineTexts \ {""}}

\* The texts readlines() can return: all lines terminated, but possibly the last.
Files ==
    {f \in SeqsUpTo(TerminatedLines \cup UnterminatedLines, MaxLines) :
        \A i \in 1..Len(f) : i < Len(f) => f[i].nl}

\* line == '---\n'
IsDelimiterLine(line) == line.text = "---" /\ line.nl

\* One iteration of the for loop (lines 146-153) on the locals s.
ScanStep(s, line) ==
    IF s.state = 0 /\ IsDelimiterLine(line) THEN [s EXCEPT !.state = 1]
    ELSE IF s.state = 1 /\ IsDelimiterLine(line) THEN [s EXCEPT !.state = 2]
    ELSE IF s.state = 1 /\ ~IsDelimiterLine(line)
        THEN [s EXCEPT !.metadata = Append(@, line)]
    ELSE IF s.state = 2 THEN [s EXCEPT !.content = Append(@, line)]
    ELSE s

\* The locals before the loop (lines 141-143).
ScanInit == [state |-> 0, metadata |-> <<>>, content |-> <<>>]

\* yaml.load of the metadata buffer (lines 10-16, an external decoder): ''
\* and a buffer of blank lines load as None, 'key: value' lines load as a
\* dict, anything else is a value that is not a mapping.
YamlKeys == [k \in {"title: X", "draft: 1"} |->
                IF k = "title: X" THEN <<"title", "X">> ELSE <<"draft", "1">>]
NonBlank(buf) == {i \in 1..Len(buf) : buf[i].text /= ""}
load_yaml(buf) ==
    IF NonBlank(buf) = {} THEN None
    ELSE IF \A i \in NonBlank(buf) : buf[i].text \in DOMAIN YamlKeys
        THEN [kind |-> "dict",
              items |-> [k \in {YamlKeys[buf[i].text][1] : i \in NonBlank(buf)} |->
                            CHOOSE v \in {"X", "1"} :
                                \E i \in NonBlank(buf) : YamlKeys[buf[i].text] = <<k, v>>]]
    ELSE [kind |-> "other"]

\* The whole function on the lines of a file.
RECURSIVE ScanFrom(_, _, _)
ScanFrom(s, f, i) == IF i > Len(f) THEN s ELSE ScanFrom(ScanStep(s, f[i]), f, i + 1)
ExtractMetadataAndContent(f) ==
    LET s == ScanFrom(ScanInit, f, 1)
    IN  [kind |-> "tuple", metadata |-> load_yaml(s.metadata), content |-> s.content]

ExtractIdle ==
    /\ lines = <<>> /\ pos = 1 /\ state = 0
    /\ metadata = <<>> /\ content = <<>> /\ extracted = None

ExtractStart ==
    /\ lines \in Files
    /\ pos = 1
    /\ state = ScanInit.state
    /\ metadata = ScanInit.metadata
    /\ content = ScanInit.content
    /\ extracted = None

\* One iteration of 'for line in open(path).readlines()'.
ReadLine ==
    /\ extracted = None
    /\ pos <= Len(lines)
    /\ LET s == ScanStep([state |-> state, metadata |-> metadata,
                          content |-> content], lines[pos])
       IN  /\ state' = s.state
           /\ metadata' = s.metadata
           /\ content' = s.content
    /\ pos' = pos + 1
    /\ UNCHANGED <<lines, extracted>>
    /\ UNCHANGED notExtract

\* return load_yaml(metadata), content
ReturnExtracted ==
    /\ extracted = None
    /\ pos > Len(lines)
    /\ extracted' = [kind |-> "tuple", metadata |-> load_yaml(metadata),
                     content |-> content]
    /\ UNCHANGED <<lines, pos, state, metadata, content>>
    /\ UNCHANGED notExtract

ExtractNext ==
    \/ ReadLine
    \/ ReturnExtracted


(***************************************************************************)
(* QUERY: TagFilter, TitleSorter, TagSorter, Query                         *)
(*                                                                         *)
(* __filters and __sorters are assigned in the class body (lines 102-104)  *)
(* and never in __init__, which sets __nodes only: with_tag and sorted_by_*)
(* append to the lists of the class, which every instance reads.           *)
(***************************************************************************)

MaxNodes   == 3
MaxQueries == 2
\* with_tag and sorted_by_* calls made in all, on all instances.
MaxCalls   == 2

\* The nodes a collection is drawn from, and the metadata dict of each.
Nodes == {"A", "B", "C", "D"}
Tags == {"title", "draft"}
NodeMetadata ==
    [n \in Nodes |->
        CASE n = "A" -> [k \in {"title", "draft"} |-> IF k = "title" THEN 2 ELSE 1]
          [] n = "B" -> [k \in {"title"} |-> 1]
          [] n = "C" -> [k \in {"title", "draft"} |-> 1]
          [] n = "D" -> [k \in {"draft"} |-> 2]]

PyInt(i) == [kind |-> "int", v |-> i]

\* TagFilter(name, value), value None when not given (lines 70-72).
TagFilter(name, value) == [name |-> name, value |-> value]
TagFilters == {TagFilter(n, v) : n \in Tags, v \in {None, PyInt(1)}}

\* TagFilter.match (lines 74-80).
TagFilter_match(f, node) ==
    IF f.name \in DOMAIN NodeMetadata[node]
    THEN IF f.value /= None
         THEN PyInt(NodeMetadata[node][f.name]) = f.value
         ELSE TRUE
    ELSE FALSE

TitleSorter == [kind |-> "TitleSorter"]
TagSorter(tag) == [kind |-> "TagSorter", tag |-> tag]
Sorters == {TitleSorter} \cup {TagSorter(t) : t \in {"draft"}}

\* Page(node): the projection handed to templates (lines 281-297).
Page(node) == [node |-> node]
Page_meta(page) == NodeMetadata[page.node]

Raised(e) == [kind |-> "raised", error |-> e]
Value(v) == [kind |-> "value", v |-> v]

\* Sorter.get_key.  TitleSorter (line 90) subscripts the dict: KeyError when
\* 'title' is missing.  TagSorter (line 98) subscripts the bound method
\* item.meta.get, which raises TypeError for every item.
get_key(s, item) ==
    IF s.kind = "TitleSorter"
    THEN IF "title" \in DOMAIN Page_meta(item)
         THEN Value(Page_meta(item)["title"])
         ELSE Raised("KeyError")
    ELSE Raised("TypeError")

\* The filter the lambda of stage i calls (line 124).  The lambda reads the
\* loop variable f when it is called, and the lazy filter objects are consumed
\* only after the loop has ended: every stage calls the last filter.
StageFilter(filters, i) == filters[Len(filters)]

\* FilterNodes with a fault: the survivors come out last to first.
FilterNodes_Reversed(nodes, filters, i) ==
    LET kept == IF i > Len(filters) THEN nodes
                ELSE SelectSeq(nodes, LAMBDA x : TagFilter_match(filters[Len(filters)], x))
    IN  [j \in 1..Len(kept) |-> kept[Len(kept) + 1 - j]]

\* nodes after the stages i.. of the filter chain (lines 122-124).
RECURSIVE FilterNodes(_, _, _)
FilterNodes(nodes, filters, i) ==
    IF i > Len(filters) THEN nodes
    ELSE FilterNodes(SelectSeq(nodes, LAMBDA x : TagFilter_match(StageFilter(filters, i), x)),
                     filters, i + 1)

\* map(Page, nodes) (line 125).
MapPage(nodes) == [i \in 1..Len(nodes) |-> Page(nodes[i])]

\* The local get_key (lines 127-128): the tuple of the sorters' keys, or the
\* first exception a sorter raises.
SortKey(sorters, item) ==
    LET bad == {i \in 1..Len(sorters) : get_key(sorters[i], item).kind = "raised"}
    IN  IF bad /= {}
        THEN get_key(sorters[CHOOSE i \in bad : \A j \in bad : i <= j], item)
        ELSE Value([i \in 1..Len(sorters) |-> get_key(sorters[i], item).v])

\* Tuple comparison a < b, for tuples of integers of the same length.
TupleLess(a, b) ==
    \E i \in 1..Len(a) : a[i] < b[i] /\ \A j \in 1..(i - 1) : a[j] = b[j]

\* sorted(result, key=get_key) (line 129): a stable sort, here by insertion
\* of each item behind the items whose key is not greater.
RECURSIVE StableSorted(_, _)
StableSorted(items, sorters) ==
    IF items = <<>> THEN <<>>
    ELSE LET n    == Len(items)
             last == items[n]
             init == StableSorted(SubSeq(items, 1, n - 1), sorters)
             k    == SortKey(sorters, last).v
             after == {i \in 1..Len(init) : TupleLess(k, SortKey(sorters, init[i]).v)}
             at   == IF after = {} THEN Len(init) + 1
                     ELSE CHOOSE i \in after : \A j \in after : i <= j
         IN  SubSeq(init, 1, at - 1) \o <<last>> \o SubSeq(init, at, Len(init))

\* Query.__iter__ (lines 121-131): the object returned, a lazy map object
\* when no sorter is registered and a list otherwise, or the exception raised
\* by the first key that fails.
Query__iter__(nodes, filters, sorters) ==
    LET pages == MapPage(FilterNodes(nodes, filters, 1))
        bad   == {i \in 1..Len(pages) : SortKey(sorters, pages[i]).kind = "raised"}
    IN  IF sorters /= <<>>
        THEN IF bad /= {}
             THEN SortKey(sorters, pages[CHOOSE i \in bad : \A j \in bad : i <= j])
             ELSE [kind |-> "list", items |-> StableSorted(pages, sorters)]
        ELSE [kind |-> "map", items |-> pages]

\* Iterating a Query (for ... in query, list(query)): iter() calls __iter__
\* and requires an iterator back.  A map object is one; a list is not, and
\* iter() raises TypeError (iter() returned non-iterator of type 'list').
Iterate(nodes, filters, sorters) ==
    LET it == Query__iter__(nodes, filters, sorters)
    IN  IF it.kind = "raised" THEN it
        ELSE IF it.kind = "list" THEN Raised("TypeError")
        ELSE [kind |-> "yielded", pages |-> it.items]

QueryIdle ==
    /\ children = <<>>
    /\ Query__filters = <<>> /\ Query__sorters = <<>>
    /\ Query__nodes = <<>> /\ registered = <<>> /\ result = None

\* The class body (lines 102-104), and the children of the node queried.
QueryStart ==
    /\ children \in DistinctSeqsUpTo(Nodes, MaxNodes)
    /\ Query__filters = <<>>
    /\ Query__sorters = <<>>
    /\ Query__nodes = <<>>
    /\ registered = <<>>
    /\ result = None

\* Node.select_children (lines 60-61): Query(self.children).
select_children ==
    /\ Len(Query__nodes) < MaxQueries
    /\ Query__nodes' = Append(Query__nodes, children)
    /\ registered' = Append(registered, [filters |-> <<>>, sorters |-> <<>>])
    /\ result' = None
    /\ UNCHANGED <<children, Query__filters, Query__sorters>>
    /\ UNCHANGED notQuery

\* Query.with_tag (lines 109-111).
with_tag(q, name, value) ==
    /\ Len(Query__filters) + Len(Query__sorters) < MaxCalls
    /\ Query__filters' = Append(Query__filters, TagFilter(name, value))
    /\ registered' = [registered EXCEPT ![q].filters = Append(@, TagFilter(name, value))]
    /\ result' = None
    /\ UNCHANGED <<children, Query__sorters, Query__nodes>>
    /\ UNCHANGED notQuery

\* Query.sorted_by_title (lines 113-115).
sorted_by_title(q) ==
    /\ Len(Query__filters) + Len(Query__sorters) < MaxCalls
    /\ Query__sorters' = Append(Query__sorters, TitleSorter)
    /\ registered' = [registered EXCEPT ![q].sorters = Append(@, TitleSorter)]
    /\ result' = None
    /\ UNCHANGED <<children, Query__filters, Query__nodes>>
    /\ UNCHANGED notQuery

\* Query.sorted_by_tag (lines 117-119).
sorted_by_tag(q, tag) ==
    /\ Len(Query__filters) + Len(Query__sorters) < MaxCalls
    /\ Query__sorters' = Append(Query__sorters, TagSorter(tag))
    /\ registered' = [registered EXCEPT ![q].sorters = Append(@, TagSorter(tag))]
    /\ result' = None
    /\ UNCHANGED <<children, Query__filters, Query__nodes>>
    /\ UNCHANGED notQuery

\* for page in query: the iteration of instance q, to its end.
IterateQuery(q) ==
    /\ result' = [kind |-> "result", query |-> q,
                  outcome |-> Iterate(Query__nodes[q], Query__filters, Query__sorters)]
    /\ UNCHANGED <<children, Query__filters, Query__sorters, Query__nodes, registered>>
    /\ UNCHANGED notQuery

QueryNext ==
    \/ select_children
    \/ \E q \in 1..Len(Query__nodes), f \in TagFilters : with_tag(q, f.name, f.value)
    \/ \E q \in 1..Len(Query__nodes) : sorted_by_title(q)
    \/ \E q \in 1..Len(Query__nodes), s \in Sorters \ {TitleSorter} : sorted_by_tag(q, s.tag)
    \/ \E q \in 1..Len(Query__nodes) : IterateQuery(q)

(***************************************************************************)
(* TEMPLATE ROUTER: TemplateRepository._match_template                     *)
(*                                                                         *)
(* A pattern and a url are strings, modelled as sequences of characters,   *)
(* so that len(pattern) is Len.  The patterns are drawn from those without *)
(* '[': literals, '*' and '?'.                                             *)
(***************************************************************************)

MaxRoutes  == 2
\* Characters of a pattern, and of a url.
MaxPattern == 2

UrlChars == {"/", "a"}
PatternChars == {"/", "*", "?"}
\* The template of the i-th route of a table.
Templates == [i \in 1..4 |-> IF i = 1 THEN "t1" ELSE IF i = 2 THEN "t2"
                                ELSE IF i = 3 THEN "t3" ELSE "t4"]

\* fnmatch.fnmatch(name, pat) (line 22): pat[i..] matches the whole of
\* name[j..]; '*' matches any run of characters, '?' any one character.
RECURSIVE MatchFrom(_, _, _, _)
MatchFrom(name, pat, i, j) ==
    IF i > Len(pat) THEN j > Len(name)
    ELSE IF pat[i] = "*"
        THEN \/ MatchFrom(name, pat, i + 1, j)
             \/ j <= Len(name) /\ MatchFrom(name, pat, i, j + 1)
    ELSE IF pat[i] = "?"
        THEN j <= Len(name) /\ MatchFrom(name, pat, i + 1, j + 1)
    ELSE j <= Len(name) /\ name[j] = pat[i] /\ MatchFrom(name, pat, i + 1, j + 1)
fnmatch(name, pat) == MatchFrom(name, pat, 1, 1)

\* sorted(matches, key=lambda x: x[0]) without reverse=True: shortest first.
RECURSIVE SortedMatches_Ascending(_)
SortedMatches_Ascending(matches) ==
    IF matches = <<>> THEN <<>>
    ELSE LET n    == Len(matches)
             last == matches[n]
             init == SortedMatches_Ascending(SubSeq(matches, 1, n - 1))
             after == {i \in 1..Len(init) : init[i][1] > last[1]}
             at   == IF after = {} THEN Len(init) + 1
                     ELSE CHOOSE i \in after : \A k \in after : i <= k
         IN  SubSeq(init, 1, at - 1) \o <<last>> \o SubSeq(init, at, Len(init))

\* sorted(matches, key=lambda x: x[0], reverse=True) (line 25): by length,
\* longest first; the sort is stable, and reverse=True keeps matches of equal
\* length in their original order.
RECURSIVE SortedMatches(_)
SortedMatches(matches) ==
    IF matches = <<>> THEN <<>>
    ELSE LET n    == Len(matches)
             last == matches[n]
             init == SortedMatches(SubSeq(matches, 1, n - 1))
             after == {i \in 1..Len(init) : init[i][1] < last[1]}
             at   == IF after = {} THEN Len(init) + 1
                     ELSE CHOOSE i \in after : \A k \in after : i <= k
         IN  SubSeq(init, 1, at - 1) \o <<last>> \o SubSeq(init, at, Len(init))

\* The matches list after the loop (lines 20-23): (len(pattern), template) of
\* every route whose pattern matches, in dict order.
RECURSIVE Matches(_, _, _)
Matches(rs, u, i) ==
    IF i > Len(rs) THEN <<>>
    ELSE (IF fnmatch(u, rs[i].pattern)
          THEN <<<<Len(rs[i].pattern), rs[i].template>>>> ELSE <<>>)
         \o Matches(rs, u, i + 1)

\* _match_template (lines 18-26): matches[0][1], which raises IndexError
\* (list index out of range) on the empty list.
_match_template(rs, u) ==
    LET matches == SortedMatches(Matches(rs, u, 1))
    IN  IF matches = <<>>
        THEN [kind |-> "raised", error |-> "IndexError",
              args |-> <<"list index out of range">>]
        ELSE [kind |-> "returned", template |-> matches[1][2]]

Route(p, t) == [pattern |-> p, template |-> t]

Patterns == SeqsUpTo(PatternChars, MaxPattern) \ {<<>>}
Urls == SeqsUpTo(UrlChars, MaxPattern) \ {<<>>}

\* The route tables: dicts, whose keys (the patterns) are distinct.
RouteTables ==
    {[i \in 1..Len(ps) |-> Route(ps[i], Templates[i])] :
        ps \in DistinctSeqsUpTo(Patterns, MaxRoutes)}

\* The routes {'/blog/*': 'post', '/blog/index': 'bloghome'} and '/blog/index'.
BlogRoutes ==
    << Route(<<"/", "b", "l", "o", "g", "/", "*">>, "post"),
       Route(<<"/", "b", "l", "o", "g", "/", "i", "n", "d", "e", "x">>, "bloghome") >>
BlogIndexUrl == <<"/", "b", "l", "o", "g", "/", "i", "n", "d", "e", "x">>

RouteIdle == routes = <<>> /\ url = <<>> /\ matched = None

\* TemplateRepository.__init__ (lines 12-13) and the url asked for.
RouteStart ==
    /\ \E c \in (RouteTables \X Urls) \cup {<<BlogRoutes, BlogIndexUrl>>} :
          routes = c[1] /\ url = c[2]
    /\ matched = None

\* find_template(url) up to its call of _match_template (lines 44, 64).
MatchTemplate ==
    /\ matched = None
    /\ matched' = _match_template(routes, url)
    /\ UNCHANGED <<routes, url>>
    /\ UNCHANGED notRoute

RouteNext ==
    \/ MatchTemplate

(***************************************************************************)
(* BUILD: Liara.discover_content and Liara.build                           *)
(*                                                                         *)
(* A file name is the sequence of its dot-separated parts ('a.tar.gz' is   *)
(* <<"a", "tar", "gz">>), a path the sequence of its names, '/' being <<>>.*)
(* A Node object is an entry of heap; collections hold heap indices.       *)
(***************************************************************************)

MaxFiles == 2
MaxRuns == 2

\* pathlib: stem, suffix, suffixes, with_suffix and with_name on the last name.
Stem(name) == IF Len(name) > 1 THEN SubSeq(name, 1, Len(name) - 1) ELSE name
Suffix(name) == IF Len(name) > 1 THEN <<name[Len(name)]>> ELSE <<>>
Suffixes(name) == SubSeq(name, 2, Len(name))
WithName(path, name) == SubSeq(path, 1, Len(path) - 1) \o <<name>>
WithSuffix(path, suffix) == WithName(path, Stem(path[Len(path)]) \o suffix)

\* create_relative_path (lines 400-408), rel being the path below the root.
create_relative_path(rel) ==
    IF rel = <<>> THEN <<>> ELSE WithName(rel, Stem(rel[Len(rel)]))

\* The text of the documents read, by their place under the content root:
\* every document starts with front matter that has a title, but 'n.md',
\* whose front matter has none, and 'sub/n.md', which has no front matter.
FrontMatter(key) ==
    << Line("---", TRUE), Line(key, TRUE), Line("---", TRUE), Line("Body", TRUE) >>
FileLines(rel) ==
    IF rel[Len(rel)][1] /= "n" THEN FrontMatter("title: X")
    ELSE IF Len(rel) = 1 THEN FrontMatter("draft: 1")
    ELSE <<Line("Body", TRUE)>>

\* filename.startswith('_index')
IsIndexFile(name) == name[1] = "_index"

Unset == [kind |-> "unset"]
ClassDict == [kind |-> "class"]
Src(root, rel) == [kind |-> "src", root |-> root, rel |-> rel]

\* The node constructors (lines 158-278).  A node that is given no metadata
\* of its own reads the dict of the class Node (line 49).
NewNode(kind, src, path, meta, raw) ==
    [kind |-> kind, src |-> src, path |-> path, metadata |-> meta,
     raw |-> raw, content |-> Unset]
DocumentNode(src, path) ==
    LET x == ExtractMetadataAndContent(FileLines(src.rel))
    IN  NewNode("Document", src, path, x.metadata, x.content)
DataNode(src, path) == NewNode("Data", src, path, [kind |-> "dict", items |-> <<>>], <<>>)
IndexNode(path) == NewNode("Index", None, path, ClassDict, <<>>)
InternalNode(path) == NewNode("Internal", None, path, ClassDict, <<>>)
StaticNode(src, path, hasMeta) ==
    NewNode("Static", src, path,
            IF hasMeta THEN [kind |-> "dict", items |-> <<>>] ELSE ClassDict, <<>>)
SassResourceNode(src, path, hasMeta) ==
    NewNode("Resource", src, WithSuffix(path, <<"css">>),
            IF hasMeta THEN [kind |-> "dict", items |-> <<>>] ELSE ClassDict, <<>>)

\* ResourceNodeFactory.__known_types (lines 245-255).
KnownTypes == {<<"sass">>, <<"scss">>}

\* Site.__register_node (lines 334-335): a dict assignment; a path already
\* present keeps its place and takes the new node.
register_node(index, path, id) ==
    IF \E i \in 1..Len(index) : index[i].path = path
    THEN [i \in 1..Len(index) |->
            IF index[i].path = path THEN [path |-> path, node |-> id] ELSE index[i]]
    ELSE Append(index, [path |-> path, node |-> id])

\* Site.add_* (lines 310-332) of the node just put at heap index id.
SiteAdd(st, coll, path, id) ==
    [st EXCEPT ![coll] = Append(@, id), !.nodes = register_node(@, path, id)]

EmptySite ==
    [data |-> <<>>, indices |-> <<>>, documents |-> <<>>, resources |-> <<>>,
     static |-> <<>>, internal |-> <<>>, nodes |-> <<>>]

\* The files a directory can hold.
ContentNames == { <<"_index", "md">>, <<"a", "md">>, <<"n", "md">>,
                  <<"d", "yaml">>, <<"d", "yml">>, <<"i", "png">> }
StaticNames == { <<"i", "png">>, <<"a">>, <<"a", "tar", "gz">>, <<"a", "b", "c", "d">> }
ResourceNames == { <<"s", "scss">>, <<"r", "txt">> }

Dir(rel, files) == [rel |-> rel, files |-> files]

\* os.walk of the content directory: the root, then its directory 'sub' when
\* there is one; the order of the file names is the file system's.
ContentWalks ==
    LET lists == DistinctSeqsUpTo(ContentNames, MaxFiles)
    IN  {<<Dir(<<>>, f)>> : f \in lists}
          \cup {<<Dir(<<>>, f), Dir(<<<<"sub">>>>, g)>> : f \in lists, g \in lists}

\* The route tables of the template backend: one that matches every path and
\* one that matches the paths of one character after '/'.
BuildRoutes == { <<Route(<<"*">>, "t1")>>, <<Route(<<"/", "?">>, "t1")>> }

\* No pool.map call was made.
NoPool == [items |-> <<>>, results |-> <<>>]

BuildIdle ==
    /\ fs = [content |-> <<>>, static |-> <<>>, resources |-> <<>>]
    /\ heap = <<>> /\ site = EmptySite /\ pc = "idle"
    /\ walk = [dir |-> 1, file |-> 0] /\ loop_i = 1
    /\ rendered = <<>> /\ output = {} /\ error = None
    /\ pool = NoPool /\ run = 1

\* The directories build() reads: ContentSites vary the content directory
\* next to one static file and one stylesheet, AssetSites vary the static and
\* the resource directory next to one content directory.
ContentSites ==
    { [content |-> c, static |-> << <<"i", "png">> >>, resources |-> << <<"s", "scss">> >>] :
        c \in ContentWalks }
AssetSites ==
    { [content |-> <<Dir(<<>>, << <<"a", "md">>, <<"i", "png">> >>)>>,
       static |-> st, resources |-> rs] :
        st \in DistinctSeqsUpTo(StaticNames, MaxFiles),
        rs \in DistinctSeqsUpTo(ResourceNames, MaxFiles) }

\* The class bodies of Site and Liara (lines 300-308, 367-369) and the
\* directories build() will read, one of sites.
Start(sites) ==
    /\ fs \in sites
    /\ routes \in BuildRoutes
    /\ url = <<>>
    /\ matched = None
    /\ heap = <<>>
    /\ site = EmptySite
    /\ pc = "walk_content"
    /\ walk = [dir |-> 1, file |-> 0]
    /\ loop_i = 1
    /\ rendered = <<>>
    /\ output = {}
    /\ error = None
    /\ pool = NoPool
    /\ run = 1
BuildStart == Start(ContentSites)
RerunStart == Start(AssetSites)

\* An exception leaves build().
Fail(e) ==
    /\ pc' = "failed"
    /\ error' = [kind |-> "raised", error |-> e]

\* The position after file k of directory d of the content walk.
AfterFile(d, k) ==
    IF k < Len(fs.content[d].files) THEN [dir |-> d, file |-> k + 1]
    ELSE [dir |-> d + 1, file |-> 0]

\* WalkDirectory with a fault: a directory without an '_index' file is an
\* Index as soon as it holds one file.
WalkDirectory_NonEmptyIsIndex ==
    /\ pc = "walk_content"
    /\ walk.dir <= Len(fs.content)
    /\ walk.file = 0
    /\ LET d     == fs.content[walk.dir]
           idx   == {k \in 1..Len(d.files) : IsIndexFile(d.files[k])}
           first == CHOOSE k \in idx : \A j \in idx : k <= j
           path  == create_relative_path(d.rel)
           id    == Len(heap) + 1
       IN  IF idx /= {}
           THEN /\ heap' = Append(heap, DocumentNode(
                              Src("content", Append(d.rel, d.files[first])), path))
                /\ site' = SiteAdd(site, "documents", path, id)
           ELSE IF Len(d.files) > 0
           THEN /\ heap' = Append(heap, IndexNode(path))
                /\ site' = SiteAdd(site, "indices", path, id)
           ELSE /\ heap' = Append(heap, InternalNode(path))
                /\ site' = SiteAdd(site, "internal", path, id)
    /\ walk' = AfterFile(walk.dir, 0)
    /\ UNCHANGED <<fs, pc, loop_i, rendered, output, error>>
    /\ UNCHANGED <<pool, run>>
    /\ UNCHANGED notBuild

\* First pass over a directory (lines 418-434): the first '_index' file is
\* the Document of the directory; without one the directory is an Index when
\* it holds more than one file and an Internal node otherwise.
WalkDirectory ==
    /\ pc = "walk_content"
    /\ walk.dir <= Len(fs.content)
    /\ walk.file = 0
    /\ LET d     == fs.content[walk.dir]
           idx   == {k \in 1..Len(d.files) : IsIndexFile(d.files[k])}
           first == CHOOSE k \in idx : \A j \in idx : k <= j
           path  == create_relative_path(d.rel)
           id    == Len(heap) + 1
       IN  IF idx /= {}
           THEN /\ heap' = Append(heap, DocumentNode(
                              Src("content", Append(d.rel, d.files[first])), path))
                /\ site' = SiteAdd(site, "documents", path, id)
           ELSE IF Len(d.files) > 1
           THEN /\ heap' = Append(heap, IndexNode(path))
                /\ site' = SiteAdd(site, "indices", path, id)
           ELSE /\ heap' = Append(heap, InternalNode(path))
                /\ site' = SiteAdd(site, "internal", path, id)
    /\ walk' = AfterFile(walk.dir, 0)
    /\ UNCHANGED <<fs, pc, loop_i, rendered, output, error>>
    /\ UNCHANGED <<pool, run>>
    /\ UNCHANGED notBuild

\* WalkContentFile with a fault: the '_index' files are not skipped.
WalkContentFile_IndexNotSkipped ==
    /\ pc = "walk_content"
    /\ walk.dir <= Len(fs.content)
    /\ walk.file >= 1
    /\ LET d    == fs.content[walk.dir]
           name == d.files[walk.file]
           src  == Src("content", Append(d.rel, name))
           path == create_relative_path(src.rel)
           id   == Len(heap) + 1
       IN  IF Suffix(name) = <<"md">>
           THEN /\ heap' = Append(heap, DocumentNode(src, path))
                /\ site' = SiteAdd(site, "documents", path, id)
           ELSE IF Suffix(name) = <<"yaml">>
           THEN /\ heap' = Append(heap, DataNode(src, path))
                /\ site' = site
           ELSE /\ heap' = Append(heap, StaticNode(src, WithSuffix(path, Suffixes(name)),
                              WithSuffix(<<name>>, <<"meta">>)[1] \in Range(d.files)))
                /\ site' = SiteAdd(site, "static", WithSuffix(path, Suffixes(name)), id)
    /\ walk' = AfterFile(walk.dir, walk.file)
    /\ UNCHANGED <<fs, pc, loop_i, rendered, output, error>>
    /\ UNCHANGED <<pool, run>>
    /\ UNCHANGED notBuild

\* Second pass, one file (lines 436-455): '_index' files are skipped, '.md'
\* is a Document, '.yaml' a Data node that is not added to the site, anything
\* else a Static node that keeps its suffixes.
WalkContentFile ==
    /\ pc = "walk_content"
    /\ walk.dir <= Len(fs.content)
    /\ walk.file >= 1
    /\ LET d    == fs.content[walk.dir]
           name == d.files[walk.file]
           src  == Src("content", Append(d.rel, name))
           path == create_relative_path(src.rel)
           id   == Len(heap) + 1
       IN  IF IsIndexFile(name)
           THEN UNCHANGED <<heap, site>>
           ELSE IF Suffix(name) = <<"md">>
           THEN /\ heap' = Append(heap, DocumentNode(src, path))
                /\ site' = SiteAdd(site, "documents", path, id)
           ELSE IF Suffix(name) = <<"yaml">>
           THEN /\ heap' = Append(heap, DataNode(src, path))
                /\ site' = site
           ELSE /\ heap' = Append(heap, StaticNode(src, WithSuffix(path, Suffixes(name)),
                              WithSuffix(<<name>>, <<"meta">>)[1] \in Range(d.files)))
                /\ site' = SiteAdd(site, "static", WithSuffix(path, Suffixes(name)), id)
    /\ walk' = AfterFile(walk.dir, walk.file)
    /\ UNCHANGED <<fs, pc, loop_i, rendered, output, error>>
    /\ UNCHANGED <<pool, run>>
    /\ UNCHANGED notBuild

\* The content walk is over (line 457).
WalkContentDone ==
    /\ pc = "walk_content"
    /\ walk.dir > Len(fs.content)
    /\ pc' = "walk_static"
    /\ loop_i' = 1
    /\ UNCHANGED <<fs, heap, site, walk, rendered, output, error>>
    /\ UNCHANGED <<pool, run>>
    /\ UNCHANGED notBuild

\* One file of the static walk (lines 458-469).
WalkStaticFile ==
    /\ pc = "walk_static"
    /\ loop_i <= Len(fs.static)
    /\ LET name == fs.static[loop_i]
           src  == Src("static", <<name>>)
           path == WithSuffix(create_relative_path(src.rel), Suffixes(name))
       IN  /\ heap' = Append(heap, StaticNode(src, path,
                         WithSuffix(<<name>>, <<"meta">>)[1] \in Range(fs.static)))
           /\ site' = SiteAdd(site, "static", path, Len(heap) + 1)
    /\ loop_i' = loop_i + 1
    /\ UNCHANGED <<fs, pc, walk, rendered, output, error>>
    /\ UNCHANGED <<pool, run>>
    /\ UNCHANGED notBuild

WalkStaticDone ==
    /\ pc = "walk_static"
    /\ loop_i > Len(fs.static)
    /\ pc' = "walk_resources"
    /\ loop_i' = 1
    /\ UNCHANGED <<fs, heap, site, walk, rendered, output, error>>
    /\ UNCHANGED <<pool, run>>
    /\ UNCHANGED notBuild

\* One file of the resource walk (lines 474-485): the factory looks the
\* suffix up in its dict (line 259), a KeyError when it is not registered.
WalkResourceFile ==
    /\ pc = "walk_resources"
    /\ loop_i <= Len(fs.resources)
    /\ LET name == fs.resources[loop_i]
           src  == Src("resources", <<name>>)
           node == SassResourceNode(src, create_relative_path(src.rel),
                       WithSuffix(<<name>>, <<"meta">>)[1] \in Range(fs.resources))
       IN  IF Suffix(name) \in KnownTypes
           THEN /\ heap' = Append(heap, node)
                /\ site' = SiteAdd(site, "resources", node.path, Len(heap) + 1)
                /\ loop_i' = loop_i + 1
                /\ UNCHANGED <<pc, error>>
           ELSE /\ Fail("KeyError")
                /\ UNCHANGED <<heap, site, loop_i>>
    /\ UNCHANGED <<fs, walk, rendered, output>>
    /\ UNCHANGED <<pool, run>>
    /\ UNCHANGED notBuild

\* discover_content returns the site (line 487, 496).
WalkResourcesDone ==
    /\ pc = "walk_resources"
    /\ loop_i > Len(fs.resources)
    /\ pc' = "validate"
    /\ loop_i' = 1
    /\ UNCHANGED <<fs, heap, site, walk, rendered, output, error>>
    /\ UNCHANGED <<pool, run>>
    /\ UNCHANGED notBuild

\* Validate with a fault: the document is not looked at.
Validate_Unchecked ==
    /\ pc = "validate"
    /\ loop_i <= Len(site.documents)
    /\ loop_i' = loop_i + 1
    /\ UNCHANGED <<fs, heap, site, pc, walk, rendered, output, error>>
    /\ UNCHANGED <<pool, run>>
    /\ UNCHANGED notBuild

\* document.validate_metadata() (lines 498-499, 166-168): 'title' not in
\* self.metadata raises Exception, and TypeError when the metadata is None.
Validate ==
    /\ pc = "validate"
    /\ loop_i <= Len(site.documents)
    /\ LET meta == heap[site.documents[loop_i]].metadata
       IN  IF meta.kind = "None"
           THEN Fail("TypeError") /\ UNCHANGED loop_i
           ELSE IF meta.kind = "dict" /\ "title" \in DOMAIN meta.items
           THEN loop_i' = loop_i + 1 /\ UNCHANGED <<pc, error>>
           ELSE Fail("Exception") /\ UNCHANGED loop_i
    /\ UNCHANGED <<fs, heap, site, walk, rendered, output>>
    /\ UNCHANGED <<pool, run>>
    /\ UNCHANGED notBuild

ValidateDone ==
    /\ pc = "validate"
    /\ loop_i > Len(site.documents)
    /\ pc' = "process"
    /\ UNCHANGED <<fs, heap, site, walk, loop_i, rendered, output, error>>
    /\ UNCHANGED <<pool, run>>
    /\ UNCHANGED notBuild

\* markdown.markdown(raw) (line 192), an external renderer.
markdown(raw) == [kind |-> "html", of |-> raw]

\* process_content(obj) in a worker (lines 346-348, 190-192): the document
\* the worker unpickled gets its content and is returned.
process_content(node) == [node EXCEPT !.content = markdown(node.raw)]

\* pool.map(process_content, content.documents) is called (line 501): the
\* documents are pickled to the workers of the pool.
pool_map ==
    /\ pc = "process"
    /\ pool' = [items |-> site.documents,
                results |-> [i \in 1..Len(site.documents) |-> None]]
    /\ pc' = "pool"
    /\ UNCHANGED <<fs, heap, site, walk, loop_i, rendered, output, error, run>>
    /\ UNCHANGED notBuild

\* A worker is done with document i, whichever the others are at: what it
\* returns is pickled back, a new object in the parent process, kept at
\* position i of the results.
worker(i) ==
    /\ pc = "pool"
    /\ pool.results[i] = None
    /\ heap' = Append(heap, process_content(heap[pool.items[i]]))
    /\ pool' = [pool EXCEPT !.results[i] = [kind |-> "result", node |-> Len(heap) + 1]]
    /\ UNCHANGED <<fs, site, pc, walk, loop_i, rendered, output, error, run>>
    /\ UNCHANGED notBuild

\* ProcessDocuments with a fault: the results are taken in the order the
\* workers were done (the order of the objects' creation).
ProcessDocuments_CompletionOrder ==
    /\ pc = "pool"
    /\ \A i \in 1..Len(pool.results) : pool.results[i] /= None
    /\ site' = [site EXCEPT !.documents =
                   [i \in 1..Len(pool.results) |-> Len(heap) - Len(pool.results) + i]]
    /\ pc' = "process_resources"
    /\ loop_i' = 1
    /\ UNCHANGED <<fs, heap, walk, rendered, output, error, pool, run>>
    /\ UNCHANGED notBuild

\* pool.map returns once every worker is done, the results by position, and
\* content.documents = ... (line 501) puts the list on the site.
ProcessDocuments ==
    /\ pc = "pool"
    /\ \A i \in 1..Len(pool.results) : pool.results[i] /= None
    /\ site' = [site EXCEPT !.documents =
                   [i \in 1..Len(pool.results) |-> pool.results[i].node]]
    /\ pc' = "process_resources"
    /\ loop_i' = 1
    /\ UNCHANGED <<fs, heap, walk, rendered, output, error, pool, run>>
    /\ UNCHANGED notBuild

\* resource.process_content() (lines 503-504, 239-241).
ProcessResource ==
    /\ pc = "process_resources"
    /\ loop_i <= Len(site.resources)
    /\ heap' = [heap EXCEPT ![site.resources[loop_i]].content =
                   [kind |-> "css", of |-> heap[site.resources[loop_i]].src]]
    /\ loop_i' = loop_i + 1
    /\ UNCHANGED <<fs, site, pc, walk, rendered, output, error>>
    /\ UNCHANGED <<pool, run>>
    /\ UNCHANGED notBuild

ProcessResourcesDone ==
    /\ pc = "process_resources"
    /\ loop_i > Len(site.resources)
    /\ pc' = "render"
    /\ loop_i' = 1
    /\ UNCHANGED <<fs, heap, site, walk, rendered, output, error>>
    /\ UNCHANGED <<pool, run>>
    /\ UNCHANGED notBuild

\* str(node.path): '/' and the names joined by '/', as characters.
PartChars(part) == IF part = "sub" THEN <<"s", "u", "b">> ELSE <<part>>
RECURSIVE NameChars(_)
NameChars(name) ==
    IF Len(name) = 1 THEN PartChars(name[1])
    ELSE PartChars(name[1]) \o <<".">> \o NameChars(Tail(name))
RECURSIVE PathChars(_)
PathChars(path) ==
    IF path = <<>> THEN <<"/">>
    ELSE IF Len(path) = 1 THEN <<"/">> \o NameChars(path[1])
    ELSE <<"/">> \o NameChars(path[1]) \o PathChars(Tail(path))

Out(type, path, data) == [type |-> type, path |-> path, data |-> data]

\* One node of itertools.chain(content.documents, content.indices) (lines
\* 511-521): the directory is made, the template looked up, index.html
\* written.
Render ==
    /\ pc = "render"
    /\ loop_i <= Len(site.documents) + Len(site.indices)
    /\ LET id == (site.documents \o site.indices)[loop_i]
           node == heap[id]
           template == _match_template(routes, PathChars(node.path))
       IN  IF template.kind = "raised"
           THEN /\ Fail(template.error)
                /\ output' = output \cup {Out("dir", node.path, None)}
                /\ UNCHANGED <<loop_i, rendered>>
           ELSE /\ output' = output \cup
                      { Out("dir", node.path, None),
                        Out("file", Append(node.path, <<"index", "html">>),
                            [template |-> template.template, node |-> id]) }
                /\ rendered' = Append(rendered, id)
                /\ loop_i' = loop_i + 1
                /\ UNCHANGED <<pc, error>>
    /\ UNCHANGED <<fs, heap, site, walk>>
    /\ UNCHANGED <<pool, run>>
    /\ UNCHANGED notBuild

RenderDone ==
    /\ pc = "render"
    /\ loop_i > Len(site.documents) + Len(site.indices)
    /\ pc' = "write_resources"
    /\ loop_i' = 1
    /\ UNCHANGED <<fs, heap, site, walk, rendered, output, error>>
    /\ UNCHANGED <<pool, run>>
    /\ UNCHANGED notBuild

\* Write out resource data (lines 524-527).
WriteResource ==
    /\ pc = "write_resources"
    /\ loop_i <= Len(site.resources)
    /\ LET node == heap[site.resources[loop_i]]
       IN  output' = output \cup {Out("file", node.path, node.content)}
    /\ loop_i' = loop_i + 1
    /\ UNCHANGED <<fs, heap, site, pc, walk, rendered, error>>
    /\ UNCHANGED <<pool, run>>
    /\ UNCHANGED notBuild

WriteResourcesDone ==
    /\ pc = "write_resources"
    /\ loop_i > Len(site.resources)
    /\ pc' = "symlink"
    /\ loop_i' = 1
    /\ UNCHANGED <<fs, heap, site, walk, rendered, output, error>>
    /\ UNCHANGED <<pool, run>>
    /\ UNCHANGED notBuild

\* SymlinkStatic with a fault: FileExistsError is not suppressed.
SymlinkStatic_Unsuppressed ==
    /\ pc = "symlink"
    /\ loop_i <= Len(site.static)
    /\ LET node == heap[site.static[loop_i]]
       IN  IF \E o \in output : o.path = node.path
           THEN /\ Fail("FileExistsError")
                /\ UNCHANGED <<output, loop_i>>
           ELSE /\ output' = output \cup {Out("symlink", node.path, node.src)}
                /\ loop_i' = loop_i + 1
                /\ UNCHANGED <<pc, error>>
    /\ UNCHANGED <<fs, heap, site, walk, rendered>>
    /\ UNCHANGED <<pool, run>>
    /\ UNCHANGED notBuild

\* Symlink static data (lines 530-536): os.symlink raises FileExistsError
\* when a link, a file or a directory is at the destination, and the error
\* is suppressed.
SymlinkStatic ==
    /\ pc = "symlink"
    /\ loop_i <= Len(site.static)
    /\ LET node == heap[site.static[loop_i]]
       IN  IF \E o \in output : o.path = node.path
           THEN UNCHANGED output
           ELSE output' = output \cup {Out("symlink", node.path, node.src)}
    /\ loop_i' = loop_i + 1
    /\ UNCHANGED <<pc, error>>
    /\ UNCHANGED <<fs, heap, site, walk, rendered>>
    /\ UNCHANGED <<pool, run>>
    /\ UNCHANGED notBuild

SymlinkDone ==
    /\ pc = "symlink"
    /\ loop_i > Len(site.static)
    /\ pc' = "done"
    /\ UNCHANGED <<fs, heap, site, walk, loop_i, rendered, output, error>>
    /\ UNCHANGED <<pool, run>>
    /\ UNCHANGED notBuild

BuildNext ==
    \/ WalkDirectory
    \/ WalkContentFile
    \/ WalkContentDone
    \/ WalkStaticFile
    \/ WalkStaticDone
    \/ WalkResourceFile
    \/ WalkResourcesDone
    \/ Validate
    \/ ValidateDone
    \/ pool_map
    \/ \E i \in 1..Len(pool.items) : worker(i)
    \/ ProcessDocuments
    \/ ProcessResource
    \/ ProcessResourcesDone
    \/ Render
    \/ RenderDone
    \/ WriteResource
    \/ WriteResourcesDone
    \/ SymlinkStatic
    \/ SymlinkDone

\* build() is run again on the same directories by a new interpreter: the
\* class bodies (lines 300-308, 367-369) are evaluated anew and the output
\* directory is as the run before left it.
NewProcess ==
    /\ pc \in {"done", "failed"}
    /\ run < MaxRuns
    /\ run' = run + 1
    /\ heap' = <<>>
    /\ site' = EmptySite
    /\ pool' = NoPool
    /\ pc' = "walk_content"
    /\ walk' = [dir |-> 1, file |-> 0]
    /\ loop_i' = 1
    /\ rendered' = <<>>
    /\ error' = None
    /\ UNCHANGED <<fs, output>>
    /\ UNCHANGED notBuild

\* build() is run again by the same interpreter, on a second Liara instance
\* (lines 371-377): __init__ sets the configuration and the template
\* backend; __site is the attribute of the class Liara, the one Site the
\* run before filled.
NewInstance ==
    /\ pc \in {"done", "failed"}
    /\ run < MaxRuns
    /\ run' = run + 1
    /\ pc' = "walk_content"
    /\ walk' = [dir |-> 1, file |-> 0]
    /\ loop_i' = 1
    /\ rendered' = <<>>
    /\ error' = None
    /\ UNCHANGED <<fs, heap, site, output, pool>>
    /\ UNCHANGED notBuild

RerunNext ==
    \/ BuildNext
    \/ NewProcess
    \/ NewInstance

(***************************************************************************)
(* NODE: add_child and update_metadata                                     *)
(*                                                                         *)
(* 'metadata', 'children' and 'parent' are attributes of the class Node    *)
(* (lines 48-50).  No constructor assigns 'children'; 'metadata' is        *)
(* assigned by the constructors that read a file; 'parent' is assigned by  *)
(* add_child.  An object without an attribute of its own reads the         *)
(* attribute of the class.                                                 *)
(***************************************************************************)

MaxObjects == 2
MaxChildren == 2

\* The class body of Node (lines 48-50), no object constructed.
NodeIdle ==
    /\ objects = <<>>
    /\ Node_children = <<>>
    /\ Node_metadata = <<>>
    /\ parent = <<>>
    /\ calls = [added |-> <<>>, updated |-> {}]

\* The nodes constructed: an Index, an Internal node, and the Static node of
\* an image, without and with a '.meta' file next to it.
NodeObjects ==
    { IndexNode(<<>>), InternalNode(<< <<"sub">> >>),
      StaticNode(Src("static", << <<"i", "png">> >>), << <<"i", "png">> >>, FALSE),
      StaticNode(Src("static", << <<"i", "png">> >>), << <<"i", "png">> >>, TRUE) }

\* self.children and self.metadata of object n (lines 48-49): the attribute
\* of the object when it has one, of the class otherwise.
Node_children_of(n) == Node_children
Node_metadata_of(n) ==
    IF objects[n].metadata = ClassDict
    THEN [kind |-> "dict", items |-> Node_metadata]
    ELSE objects[n].metadata

\* A constructor call (lines 204-217, 263-270).
Construct(node) ==
    /\ Len(objects) < MaxObjects
    /\ objects' = Append(objects, node)
    /\ parent' = Append(parent, None)
    /\ calls' = [calls EXCEPT !.added = Append(@, <<>>)]
    /\ UNCHANGED <<Node_children, Node_metadata>>
    /\ UNCHANGED notNode

\* Node.add_child (lines 53-55): self.children.append(child) appends to the
\* list self.children evaluates to; child.parent = self.
add_child(n, child) ==
    /\ Len(Node_children) < MaxChildren
    /\ Node_children' = Append(Node_children, child)
    /\ parent' = [parent EXCEPT ![child] = [kind |-> "node", node |-> n]]
    /\ calls' = [calls EXCEPT !.added[n] = Append(@, child)]
    /\ UNCHANGED <<objects, Node_metadata>>
    /\ UNCHANGED notNode

\* StaticNode.update_metadata (lines 272-278): for a '.jpg' or '.png' source
\* self.metadata.update({'image_size': image.size}) changes the dict
\* self.metadata evaluates to.
update_metadata(n) ==
    /\ objects[n].kind = "Static"
    /\ IF Suffix(objects[n].src.rel[Len(objects[n].src.rel)]) \in {<<"jpg">>, <<"png">>}
       THEN IF objects[n].metadata = ClassDict
            THEN /\ Node_metadata' = Node_metadata @@ ("image_size" :> "size")
                 /\ UNCHANGED objects
            ELSE /\ objects' = [objects EXCEPT ![n].metadata.items =
                                   @ @@ ("image_size" :> "size")]
                 /\ UNCHANGED Node_metadata
       ELSE UNCHANGED <<objects, Node_metadata>>
    /\ calls' = [calls EXCEPT !.updated = @ \cup {n}]
    /\ UNCHANGED <<Node_children, parent>>
    /\ UNCHANGED notNode

NodeNext ==
    \/ \E node \in NodeObjects : Construct(node)
    \/ \E n, child \in 1..Len(objects) : add_child(n, child)
    \/ \E n \in 1..Len(objects) : update_metadata(n)

(***************************************************************************)
(* SITE: the add_* methods                                                 *)
(*                                                                         *)
(* Each add_* method appends the node to the typed list and assigns it to  *)
(* its path in the dict __nodes (lines 310-335).  The nodes registered are *)
(* the ones discovery builds for a file 'a.md', a directory 'a', a data    *)
(* file 'a.yaml', static files 'a' and 'i.png' and a stylesheet 'a.scss'.  *)
(***************************************************************************)

MaxAdds == 3

DocumentNodes ==
    { DocumentNode(Src("content", << <<"a", "md">> >>), << <<"a">> >>) }
IndexNodes == { IndexNode(<<>>), IndexNode(<< <<"a">> >>) }
InternalNodes == { InternalNode(<< <<"a">> >>) }
DataNodes == { DataNode(Src("content", << <<"a", "yaml">> >>), << <<"a">> >>) }
StaticNodes ==
    { StaticNode(Src("static", << <<"a">> >>), << <<"a">> >>, FALSE),
      StaticNode(Src("static", << <<"i", "png">> >>), << <<"i", "png">> >>, FALSE) }
ResourceNodes ==
    { SassResourceNode(Src("resources", << <<"a", "scss">> >>), << <<"a">> >>, FALSE) }

\* The add_* methods (lines 310-332): self.<list>.append(node), then
\* self.__register_node(node); the node becomes the next object.
add_data(node) ==
    /\ pc = "idle"
    /\ Len(heap) < MaxAdds
    /\ heap' = Append(heap, node)
    /\ site' = SiteAdd(site, "data", node.path, Len(heap) + 1)
    /\ UNCHANGED <<fs, pc, walk, loop_i, rendered, output, error, pool, run>>
    /\ UNCHANGED notBuild

add_index(node) ==
    /\ pc = "idle"
    /\ Len(heap) < MaxAdds
    /\ heap' = Append(heap, node)
    /\ site' = SiteAdd(site, "indices", node.path, Len(heap) + 1)
    /\ UNCHANGED <<fs, pc, walk, loop_i, rendered, output, error, pool, run>>
    /\ UNCHANGED notBuild

add_document(node) ==
    /\ pc = "idle"
    /\ Len(heap) < MaxAdds
    /\ heap' = Append(heap, node)
    /\ site' = SiteAdd(site, "documents", node.path, Len(heap) + 1)
    /\ UNCHANGED <<fs, pc, walk, loop_i, rendered, output, error, pool, run>>
    /\ UNCHANGED notBuild

add_resource(node) ==
    /\ pc = "idle"
    /\ Len(heap) < MaxAdds
    /\ heap' = Append(heap, node)
    /\ site' = SiteAdd(site, "resources", node.path, Len(heap) + 1)
    /\ UNCHANGED <<fs, pc, walk, loop_i, rendered, output, error, pool, run>>
    /\ UNCHANGED notBuild

add_static(node) ==
    /\ pc = "idle"
    /\ Len(heap) < MaxAdds
    /\ heap' = Append(heap, node)
    /\ site' = SiteAdd(site, "static", node.path, Len(heap) + 1)
    /\ UNCHANGED <<fs, pc, walk, loop_i, rendered, output, error, pool, run>>
    /\ UNCHANGED notBuild

add_internal(node) ==
    /\ pc = "idle"
    /\ Len(heap) < MaxAdds
    /\ heap' = Append(heap, node)
    /\ site' = SiteAdd(site, "internal", node.path, Len(heap) + 1)
    /\ UNCHANGED <<fs, pc, walk, loop_i, rendered, output, error, pool, run>>
    /\ UNCHANGED notBuild

SiteNext ==
    \/ \E node \in DataNodes : add_data(node)
    \/ \E node \in IndexNodes : add_index(node)
    \/ \E node \in DocumentNodes : add_document(node)
    \/ \E node \in ResourceNodes : add_resource(node)
    \/ \E node \in StaticNodes : add_static(node)
    \/ \E node \in InternalNodes : add_internal(node)

(***************************************************************************)
(* SPECIFICATIONS                                                          *)
(***************************************************************************)

ExtractInit == ExtractStart /\ QueryIdle /\ RouteIdle /\ BuildIdle /\ NodeIdle
SpecExtract == ExtractInit /\ [][ExtractNext]_vars

QueryInit == QueryStart /\ ExtractIdle /\ RouteIdle /\ BuildIdle /\ NodeIdle
SpecQuery == QueryInit /\ [][QueryNext]_vars

RouteInit == RouteStart /\ ExtractIdle /\ QueryIdle /\ BuildIdle /\ NodeIdle
SpecRoute == RouteInit /\ [][RouteNext]_vars

BuildInit == BuildStart /\ ExtractIdle /\ QueryIdle /\ NodeIdle
SpecBuild == BuildInit /\ [][BuildNext]_vars

RerunInit == RerunStart /\ ExtractIdle /\ QueryIdle /\ NodeIdle
SpecRerun == RerunInit /\ [][RerunNext]_vars

NodeInit == NodeIdle /\ ExtractIdle /\ QueryIdle /\ RouteIdle /\ BuildIdle
SpecNode == NodeInit /\ [][NodeNext]_vars

SiteInit == BuildIdle /\ ExtractIdle /\ QueryIdle /\ RouteIdle /\ NodeIdle
SpecSite == SiteInit /\ [][SiteNext]_vars

\* ---- claims about the front-matter scanner ---------------------------------

\* The delimiter lines among the first n lines of f: the lines whose text is
\* '---', whatever their terminator.
DelimiterLines(f, n) == {i \in 1..n : f[i].text = "---"}
Least(S) == CHOOSE i \in S : \A j \in S : i <= j

\* C1: for a text with no '---' delimiter line, ExtractMetadataAndContent
\* returns empty metadata and a body equal to the entire text of the file.
C1_NoDelimiterWholeTextIsBody ==
    (extracted /= None /\ DelimiterLines(lines, Len(lines)) = {}) =>
        /\ extracted.metadata \in {None, [kind |-> "dict", items |-> <<>>]}
        /\ extracted.content = lines

\* C2: after any number of lines read, the scanner state is the number of
\* delimiter lines seen so far, capped at 2 (0 -> 1 on the first, 1 -> 2 on the
\* next, 2 for ever after); the metadata buffer is exactly the lines strictly
\* between the first two delimiter lines, the body exactly the lines after the
\* second one (blank lines and later '---' lines included), and the lines
\* before the first delimiter are in neither buffer.
C2_ScannerFollowsDelimiters ==
    LET n  == pos - 1
        D  == DelimiterLines(lines, n)
        d1 == Least(D)
        d2 == Least(D \ {d1})
    IN  /\ state = IF Cardinality(D) >= 2 THEN 2 ELSE Cardinality(D)
        /\ metadata = IF D = {} THEN <<>>
                      ELSE SubSeq(lines, d1 + 1, IF Cardinality(D) >= 2 THEN d2 - 1 ELSE n)
        /\ content = IF Cardinality(D) >= 2 THEN SubSeq(lines, d2 + 1, n) ELSE <<>>

\* The same statement for the files whose every line, the last included, ends
\* in a newline: it holds of them.
ScannerFollowsDelimiters_TerminatedFiles ==
    (\A i \in 1..Len(lines) : lines[i].nl) => C2_ScannerFollowsDelimiters

\* ---- claims about the Query engine ------------------------------------------

PageNodes(pages) == [i \in 1..Len(pages) |-> pages[i].node]
MatchesAll(filters, n) == \A i \in 1..Len(filters) : TagFilter_match(filters[i], n)
NoCalls == [filters |-> <<>>, sorters |-> <<>>]

\* C3: iterating a Query on which k >= 1 filters were registered with with_tag
\* yields exactly the nodes of its collection that satisfy every one of the k
\* filters.  Stated for a Query whose filters are the only ones registered on
\* any instance, with no sorter registered.
C3_EveryFilterApplies ==
    result /= None =>
        LET q   == result.query
            own == registered[q].filters
        IN  (Len(own) >= 1 /\ Query__filters = own /\ Query__sorters = <<>>) =>
                /\ result.outcome.kind = "yielded"
                /\ PageNodes(result.outcome.pages)
                     = SelectSeq(Query__nodes[q], LAMBDA n : MatchesAll(own, n))

\* C4: when no sorter has been registered an iteration completes, and whenever
\* an iteration yields pages they are nodes of the starting collection in the
\* relative order they have there, each once, none that passes every
\* registered filter being left out.
C4_FilterKeepsCollectionOrder ==
    result /= None =>
        LET q  == result.query
            o  == result.outcome
        IN  /\ Query__sorters = <<>> => o.kind = "yielded"
            /\ o.kind = "yielded" =>
                 LET ns == PageNodes(o.pages)
                 IN  /\ ns = SelectSeq(Query__nodes[q], LAMBDA n : n \in Range(ns))
                     /\ \A n \in Range(Query__nodes[q]) :
                            MatchesAll(Query__filters, n) => n \in Range(ns)

\* Witness of C4: with_tag('draft') over [A(draft), B, C(draft)] yielded [A, C].
C4_Witness ==
    /\ result /= None
    /\ Query__nodes[result.query] = <<"A", "B", "C">>
    /\ Query__filters = <<TagFilter("draft", None)>>
    /\ Query__sorters = <<>>
    /\ result.outcome = [kind |-> "yielded", pages |-> <<Page("A"), Page("C")>>]

\* C5: iterating a Query on which no call was made yields every node of its
\* collection in the original order, whatever was called on other instances.
\* Stated for the calls with_tag alone: no sorter was registered anywhere.
C5_FreshQueryYieldsAll ==
    result /= None =>
        ((registered[result.query] = NoCalls /\ Query__sorters = <<>>) =>
            /\ result.outcome.kind = "yielded"
            /\ PageNodes(result.outcome.pages) = Query__nodes[result.query])

\* The key the claims give sorter s for node n: meta['title'] or meta[tag].
ClaimedKey(s, n) ==
    IF s.kind = "TitleSorter" THEN NodeMetadata[n]["title"] ELSE NodeMetadata[n][s.tag]
ClaimedKeys(sorters, n) == [i \in 1..Len(sorters) |-> ClaimedKey(sorters[i], n)]
CarriesKeys(sorters, n) ==
    \A i \in 1..Len(sorters) :
        (IF sorters[i].kind = "TitleSorter" THEN "title" ELSE sorters[i].tag)
            \in DOMAIN NodeMetadata[n]
IndexIn(seq, n) == CHOOSE i \in 1..Len(seq) : seq[i] = n

\* ns holds the nodes of coll that pass the filters, ordered by the tuple of
\* the sorters' keys, nodes of equal key in the order they have in coll.
StablyOrdered(ns, coll, sorters) ==
    /\ Range(ns) \subseteq Range(coll)
    /\ \A i, j \in 1..Len(ns) : i < j =>
          \/ TupleLess(ClaimedKeys(sorters, ns[i]), ClaimedKeys(sorters, ns[j]))
          \/ /\ ClaimedKeys(sorters, ns[i]) = ClaimedKeys(sorters, ns[j])
             /\ IndexIn(coll, ns[i]) < IndexIn(coll, ns[j])

\* C6: after sorted_by_title() iterating the Query yields the pages ordered by
\* meta['title'], nodes of equal title in collection order; with several
\* sorters the order is by the tuple of their keys, the first sorter first.
\* Stated for a Query whose sorters are title sorters only and the only ones
\* registered, over two or more nodes that all carry a title.
C6_SortedByTitleIsStable ==
    result /= None =>
        LET q   == result.query
            own == registered[q].sorters
        IN  (/\ Len(own) >= 1
             /\ Len(Query__nodes[q]) >= 2
             /\ \A i \in 1..Len(own) : own[i] = TitleSorter
             /\ Query__sorters = own
             /\ \A n \in Range(Query__nodes[q]) : CarriesKeys(own, n)) =>
                /\ result.outcome.kind = "yielded"
                /\ StablyOrdered(PageNodes(result.outcome.pages), Query__nodes[q], own)

\* C7: iterating a Query with sorted_by_tag(name) over nodes that all carry
\* the key name completes without error and yields the pages ordered by their
\* meta[name].  Stated for a Query whose one sorter is the only one registered,
\* over two or more nodes.
C7_SortedByTagOrders ==
    result /= None =>
        LET q   == result.query
            own == registered[q].sorters
        IN  (/\ Len(own) = 1
             /\ Len(Query__nodes[q]) >= 2
             /\ own[1].kind = "TagSorter"
             /\ Query__sorters = own
             /\ \A n \in Range(Query__nodes[q]) : CarriesKeys(own, n)) =>
                /\ result.outcome.kind = "yielded"
                /\ StablyOrdered(PageNodes(result.outcome.pages), Query__nodes[q], own)

\* ---- claims about the template router ---------------------------------------

MatchingRoutes == {i \in 1..Len(routes) : fnmatch(url, routes[i].pattern)}

\* C8: when at least one pattern matches the url, _match_template returns the
\* template of a matching route no other matching pattern is longer than.
C8_LongestMatchingPatternWins ==
    (matched /= None /\ MatchingRoutes /= {}) =>
        /\ matched.kind = "returned"
        /\ \E i \in MatchingRoutes :
              /\ routes[i].template = matched.template
              /\ \A j \in MatchingRoutes :
                    Len(routes[j].pattern) <= Len(routes[i].pattern)

\* Witness of C8: '/blog/index' under {'/blog/*': 'post', '/blog/index':
\* 'bloghome'} resolved to 'bloghome', both patterns matching.
C8_Witness ==
    /\ routes = BlogRoutes
    /\ url = BlogIndexUrl
    /\ MatchingRoutes = {1, 2}
    /\ matched = [kind |-> "returned", template |-> "bloghome"]

\* C9: when no pattern matches the url, the resolution fails with a
\* NoRouteError that names the url, and returns no template.  Stated for a
\* route table that is not empty.
C9_NoRouteErrorNamesPath ==
    (matched /= None /\ routes /= <<>> /\ MatchingRoutes = {}) =>
        /\ matched.kind = "raised"
        /\ matched.error = "NoRouteError"
        /\ url \in Range(matched.args)

\* ---- claims about the build pipeline ----------------------------------------

\* The Document at heap index id has no 'title' in its metadata.
LacksTitle(id) ==
    ~(heap[id].metadata.kind = "dict" /\ "title" \in DOMAIN heap[id].metadata.items)
UntitledDocuments == {i \in 1..Len(site.documents) : LacksTitle(site.documents[i])}

\* C10: when a discovered Document lacks 'title', build() gets no further than
\* the validation of that Document, where it ends with an error: no content
\* is processed, no template is rendered for any node and no file, directory
\* or symlink is written, wherever the Document is in discovery order.
C10_UntitledDocumentStopsBuild ==
    UntitledDocuments /= {} =>
        /\ pc \in {"walk_content", "walk_static", "walk_resources", "validate", "failed"}
        /\ pc = "validate" => \E i \in UntitledDocuments : loop_i <= i
        /\ pc = "failed" => error /= None
        /\ \A id \in 1..Len(heap) : heap[id].content = Unset
        /\ rendered = <<>>
        /\ output = {}

\* Witness of C10: validate_metadata raised on a Document that is not the
\* first in discovery order, the Documents before it having passed.
C10_Witness ==
    /\ pc = "failed"
    /\ error = [kind |-> "raised", error |-> "Exception"]
    /\ loop_i >= 2
    /\ loop_i \in UntitledDocuments
    /\ output = {}

\* ---- claims about discovery -------------------------------------------------

\* The first pass of discover_content over directory d of the walk is done.
Visited(d) ==
    pc /= "walk_content" \/ walk.dir > d \/ (walk.dir = d /\ walk.file >= 1)
HasIndexFile(d) == \E k \in 1..Len(fs.content[d].files) : IsIndexFile(fs.content[d].files[k])
\* The Index and Internal nodes constructed with path p.
SyntheticAt(p) ==
    {id \in 1..Len(heap) : heap[id].kind \in {"Index", "Internal"} /\ heap[id].path = p}

IndexFileDocuments(d) ==
    {id \in 1..Len(heap) :
        /\ heap[id].kind = "Document"
        /\ heap[id].content = Unset
        /\ heap[id].src.rel = Append(fs.content[d].rel, <<"_index", "md">>)}

\* C12: for every content directory D that holds '_index.md', discover_content
\* creates a Document whose path is D's mapped path, registers no Index or
\* Internal node for D at that path, and the per-file pass creates no second
\* Document for the '_index' file.
C12_IndexFileIsTheDirectoryDocument ==
    \A d \in 1..Len(fs.content) :
        <<"_index", "md">> \in Range(fs.content[d].files) =>
            /\ Cardinality(IndexFileDocuments(d)) = IF Visited(d) THEN 1 ELSE 0
            /\ \A id \in IndexFileDocuments(d) :
                  /\ heap[id].path = fs.content[d].rel
                  /\ pc \in {"walk_content", "walk_static", "walk_resources", "validate"}
                        => id \in Range(site.documents)
            /\ SyntheticAt(fs.content[d].rel) = {}

\* Witness of C12: discovery is over for a directory that holds '_index.md'
\* and a second '.md' file, both passes having run over it.
C12_Witness ==
    /\ pc = "validate"
    /\ \E d \in 1..Len(fs.content) :
          /\ {<<"_index", "md">>, <<"a", "md">>} \subseteq Range(fs.content[d].files)
          /\ IndexFileDocuments(d) /= {}

\* The per-file pass of discover_content is past file k of directory d.
Processed(d, k) ==
    pc /= "walk_content" \/ walk.dir > d \/ (walk.dir = d /\ walk.file > k)
\* The nodes constructed from the file at src.
NodesOf(src) ==
    {id \in 1..Len(heap) : heap[id].kind \notin {"Index", "Internal"} /\ heap[id].src = src}
\* The kind the claim gives a content file by its extension.
ClaimedKind(name) ==
    IF Suffix(name) = <<"md">> THEN "Document"
    ELSE IF Suffix(name) \in {<<"yaml">>, <<"yml">>} THEN "Data"
    ELSE "Resource"

\* C13: in the content walk each non-'_index' file is classified by its
\* extension: '.md' is a Document, '.yaml' and '.yml' are Data, every other
\* extension is a Resource built by the factory from the suffix, which fails
\* when no handler is registered for it.
C13_ContentFileClassifiedByExtension ==
    \A d \in 1..Len(fs.content) : \A k \in 1..Len(fs.content[d].files) :
        LET name == fs.content[d].files[k]
            src  == Src("content", Append(fs.content[d].rel, name))
        IN  (Processed(d, k) /\ ~IsIndexFile(name)) =>
                IF ClaimedKind(name) = "Resource" /\ Suffix(name) \notin KnownTypes
                THEN FALSE
                ELSE /\ NodesOf(src) /= {}
                     /\ \A id \in NodesOf(src) : heap[id].kind = ClaimedKind(name)

\* The typed collection of the Site for a node of that kind.
CollectionOf(kind) ==
    CASE kind = "Document" -> site.documents
      [] kind = "Data"     -> site.data
      [] kind = "Index"    -> site.indices
      [] kind = "Internal" -> site.internal
      [] kind = "Static"   -> site.static
      [] kind = "Resource" -> site.resources
\* Site.urls (lines 341-343).
Site_urls == {site.nodes[i].path : i \in 1..Len(site.nodes)}

\* C14: when discover_content returns, every node it constructed is in the
\* typed collection of its kind and its path is a key of Site.urls; so every
\* Data node is in Site.data.
C14_EveryNodeIsRegistered ==
    pc = "validate" =>
        \A id \in 1..Len(heap) :
            /\ id \in Range(CollectionOf(heap[id].kind))
            /\ heap[id].path \in Site_urls

\* File k of the static directory was walked by this run.
StaticWalked(k) ==
    pc \notin {"walk_content", "idle"} /\ (pc = "walk_static" => loop_i > k)

\* C15: the path of a Static file is its file name with the whole suffix
\* chain, for every number of suffixes: 'a' gives '/a', 'a.tar.gz' gives
\* '/a.tar.gz' and 'a.b.c.d' gives '/a.b.c.d'.
C15_StaticNameKeepsSuffixChain ==
    \A k \in 1..Len(fs.static) :
        StaticWalked(k) =>
            \A id \in NodesOf(Src("static", <<fs.static[k]>>)) :
                heap[id].path = <<fs.static[k]>>

\* ---- claims about the build stages -----------------------------------------

Symlinks == {o \in output : o.type = "symlink"}
\* Every Static node of the site has its link in the output directory.
LinksExist ==
    \A i \in 1..Len(site.static) :
        \E o \in Symlinks : o.path = heap[site.static[i]].path

\* C16: in a later run of build() on the same output directory, where every
\* link of the static stage is already there, no step of the stage raises and
\* every link stays on the absolute source it was made for.
C16_StaticEmissionIsIdempotent ==
    [][(run > 1 /\ pc = "symlink" /\ LinksExist) =>
           /\ pc' \in {"symlink", "done"}
           /\ error' = None
           /\ Symlinks' = Symlinks]_vars

\* Witness of C16: a second run of build() went through the static stage
\* with two links made by the first run.
C16_Witness ==
    /\ run = 2
    /\ pc = "done"
    /\ Len(site.static) >= 2
    /\ Cardinality(Symlinks) >= 2
    /\ LinksExist

PastProcessing == {"process_resources", "render", "write_resources", "symlink", "done"}

\* C17: after the pool.map step every Document reachable through the Site,
\* through Site.documents and through the path index Site.nodes, is the node
\* discovery registered, with its content set, and the collections have the
\* shape they had.
C17_ProcessingKeepsNodeIdentity ==
    pc \in PastProcessing =>
        /\ Len(site.documents) = Len(pool.items)
        /\ \A i \in 1..Len(site.documents) :
              /\ site.documents[i] = pool.items[i]
              /\ heap[site.documents[i]].content /= Unset
        /\ \A i \in 1..Len(site.nodes) :
              heap[site.nodes[i].node].kind = "Document" =>
                  heap[site.nodes[i].node].content /= Unset

\* C18: whatever the order in which the workers are done, Site.documents
\* after pool.map has at each position the processed result of the document
\* that was at that position before, and the render loop visits the
\* Documents and then the Indices in that order.
C18_DocumentsKeepDiscoveryOrder ==
    LET order == site.documents \o site.indices
    IN  /\ pc \in PastProcessing =>
              /\ Len(site.documents) = Len(pool.items)
              /\ \A i \in 1..Len(pool.items) :
                    heap[site.documents[i]] = process_content(heap[pool.items[i]])
              /\ Len(rendered) <= Len(order)
              /\ rendered = SubSeq(order, 1, Len(rendered))
        /\ pc \in {"write_resources", "symlink", "done"} => rendered = order

\* Witness of C18: build() is done for a site with an Index and two Documents
\* of which the second was out of its worker before the first.
C18_Witness ==
    /\ pc = "done"
    /\ Len(pool.items) >= 2
    /\ pool.results[2].node < pool.results[1].node
    /\ site.indices /= <<>>
    /\ rendered = site.documents \o site.indices

\* C20: a Liara instance starts with a Site whose typed collections and path
\* index are empty: when a run of build() begins, nothing registered by an
\* earlier run or through another instance is in them.
C20_NewInstanceStartsEmpty ==
    (pc = "walk_content" /\ walk = [dir |-> 1, file |-> 0]) => site = EmptySite

\* ---- claims about Node -----------------------------------------------------

\* C19: every Node has its own children and its own metadata: the children of
\* n are the nodes added by add_child on n, in that order, and the metadata
\* of n has the key update_metadata sets only when it was called on n.
C19_NodeOwnsChildrenAndMetadata ==
    \A n \in 1..Len(objects) :
        /\ Node_children_of(n) = calls.added[n]
        /\ "image_size" \in DOMAIN Node_metadata_of(n).items => n \in calls.updated

\* ---- claims about Site -----------------------------------------------------

\* The nodes the render and emit stages of build() go through (lines 511,
\* 524, 530).
UsedNodes == Range(site.documents \o site.indices \o site.resources \o site.static)
TypedNodes == UsedNodes \cup Range(site.data) \cup Range(site.internal)
\* The path index maps each of its paths to the last node registered at it,
\* and has every path a node was registered at.
IndexIsLastWriterWins ==
    /\ \A i \in 1..Len(site.nodes) :
          LET at == {id \in TypedNodes : heap[id].path = site.nodes[i].path}
          IN  /\ site.nodes[i].node \in at
              /\ \A id \in at : id <= site.nodes[i].node
    /\ \A id \in TypedNodes : heap[id].path \in Site_urls
    /\ \A i, j \in 1..Len(site.nodes) :
          site.nodes[i].path = site.nodes[j].path => i = j

\* C21: after any sequence of Site.add_* calls, two nodes with the same path
\* included, the path index and the typed collections agree: the index maps
\* each path to the last node registered at it, every node of a typed
\* collection is the node the index has at its path, and no two nodes the
\* render and emit stages use have the same path.
C21_IndexAgreesWithCollections ==
    /\ IndexIsLastWriterWins
    /\ \A id \in TypedNodes :
          \E i \in 1..Len(site.nodes) :
              site.nodes[i].path = heap[id].path /\ site.nodes[i].node = id
    /\ \A id1, id2 \in UsedNodes :
          heap[id1].path = heap[id2].path => id1 = id2

====
